---- MODULE Spec2Model ----
(***************************************************************************)
(* AMUSEt (scikit_tt/data_driven/tedmd.py): amuset_hosvd, amuset_hocur and *)
(* _reduced_matrix, with the Python object graph they act on.              *)
(*                                                                         *)
(* Numbers.  The last core of the left-orthonormalized psi is a            *)
(* bond x snapshots array.  The model takes cores whose snapshot columns   *)
(* are multiples w * e_k of unit vectors, written <<k, w>>.  For such a    *)
(* core the SVD of a column slice is exact: the squared singular value of  *)
(* row k is the sum of the w^2 of the selected columns lying in row k, so  *)
(* singular values are carried as their squares, "s2".  A threshold is a   *)
(* fraction <<num, den>>.  Snapshot indices are 1-based (Python's j is the *)
(* model's j + 1).                                                         *)
(***************************************************************************)
EXTENDS Integers, Sequences, FiniteSets, TLC

VARIABLES
    ortho,          \* last core of psi as left by ortho_left, for the data the calls are given
    pc,             \* "idle" | "loop" | "returned" | "raised"
    args,           \* the call: [driver, is_list, x, y]
    heap,           \* numpy arrays: array id -> contents
    tts,            \* TT objects: TT id -> [last |-> array id of cores[-1]]
    psi,            \* local psi: a TT id
    last_core,      \* local last_core: an array id
    x_indices,      \* local x_indices after lines 58-60: list of index arrays
    y_indices,      \* local y_indices after lines 58-60
    i,              \* loop counter of line 63 (number of finished iterations)
    reduced,        \* locals matrix, u, s, v as line 65 last assigned them
    eigenvalues,    \* local eigenvalues: list of eigenvalue arrays
    eigentensors,   \* local eigentensors: list of TT ids
    ret,            \* outcome of the call: return value or raised error
    prev,           \* the last finished single-pair call, as its caller observed it
    rm              \* direct calls of _reduced_matrix: inputs and outputs

vars == <<ortho, pc, args, heap, tts, psi, last_core, x_indices, y_indices, i, reduced,
          eigenvalues, eigentensors, ret, prev, rm>>

----------------------------------------------------------------------------
(* Bounds of the model *)

\* longest x_indices / y_indices list a call is given
MaxPairs == 2

\* default threshold of _reduced_matrix, 1e-3, as ThresholdNum / ThresholdDen
ThresholdNum == 1
ThresholdDen == 1000

DefaultThreshold == <<ThresholdNum, ThresholdDen>>

----------------------------------------------------------------------------
(* Small arithmetic *)

Abs(n) == IF n < 0 THEN -n ELSE n

Min(a, b) == IF a <= b THEN a ELSE b

RECURSIVE SumSeq(_)
SumSeq(q) == IF q = <<>> THEN 0 ELSE Head(q) + SumSeq(Tail(q))

IsSquare(n) == \E r \in 0..n : r * r = n

ISqrt(n) == CHOOSE r \in 0..n : r * r = n

\* q[idx[1]], q[idx[2]], ... : numpy's q[idx] for an index array idx
Take(q, idx) == [j \in 1..Len(idx) |-> q[idx[j]]]

----------------------------------------------------------------------------
(* numpy arrays, as far as the program looks at them *)

\* a last core: bond rows, one column <<k, w>> (= w * e_k) per snapshot
CoreArray(bond, cols) ==
    [kind |-> "core", shape |-> <<bond, Len(cols), 1, 1>>, bond |-> bond, cols |-> cols]

\* np.squeeze: drop the axes of length 1
Squeeze(shape) == SelectSeq(shape, LAMBDA n : n # 1)

\* last_core[:, idx, :, :] raises IndexError when an index is out of bounds
IndexInBounds(arr, idx) == \A j \in 1..Len(idx) : idx[j] \in 1..Len(arr.cols)

\* the contents of last_core[:, idx, :, :]
SliceContents(arr, idx) == CoreArray(arr.bond, Take(arr.cols, idx))

\* what scipy leaves in an array it was allowed to overwrite
Clobbered(arr) == [kind |-> "clobbered", shape |-> arr.shape, bond |-> arr.bond, cols |-> <<>>]

----------------------------------------------------------------------------
(* linalg.svd(a, full_matrices=False, lapack_driver='gesvd') *)

\* squared singular value carried by row k
RowWeight(cols, k) ==
    SumSeq([j \in 1..Len(cols) |-> IF cols[j][1] = k THEN cols[j][2] * cols[j][2] ELSE 0])

\* row k comes before row l in the descending order of singular values.
\* Equal singular values are taken in row order: LAPACK's choice among them
\* changes the reduced matrix by an orthogonal similarity only, which leaves
\* its eigenvalues as they are.
Before(cols, k, l) ==
    \/ RowWeight(cols, k) > RowWeight(cols, l)
    \/ RowWeight(cols, k) = RowWeight(cols, l) /\ k < l

\* variant: singular values in ascending order
SvdOrderAscending(a) ==
    [p \in 1..a.bond |->
        CHOOSE k \in 1..a.bond :
            Cardinality({l \in 1..a.bond : Before(a.cols, k, l)}) = p - 1]

\* the rows 1..bond in descending order of singular value
SvdOrder(a) ==
    [p \in 1..a.bond |->
        CHOOSE k \in 1..a.bond :
            Cardinality({l \in 1..a.bond : Before(a.cols, l, k)}) = p - 1]

\* u, s, v of the economy SVD: one singular triple per row of ord.
\* u[p] = k  stands for the column e_k,  s2[p] for s[p]^2,  and
\* v[p] = [num, s2]  for the row num / sqrt(s2).  The vectors of a zero
\* singular value are an arbitrary orthonormal completion; they appear here
\* under the label of their row and are always cut away by line 204.
SvdFactors(a, ord) ==
    [u  |-> ord,
     s2 |-> [p \in 1..Len(ord) |-> RowWeight(a.cols, ord[p])],
     v  |-> [p \in 1..Len(ord) |->
                [num |-> [j \in 1..Len(a.cols) |->
                             IF a.cols[j][1] = ord[p] THEN a.cols[j][2] ELSE 0],
                 s2  |-> RowWeight(a.cols, ord[p])]]]

\* full_matrices=False: min(bond, columns) singular triples, largest first
Svd(a) == SvdFactors(a, SubSeq(SvdOrder(a), 1, Min(a.bond, Len(a.cols))))

----------------------------------------------------------------------------
(* _reduced_matrix, lines 171-212 *)

\* variant: the slice is a view of the array it was taken from
FancyIndexView(h, id, idx) ==
    [heap |-> Append(h, SliceContents(h[id], idx)), id |-> Len(h) + 1, base |-> id]

\* line 199: advanced indexing with an index array makes a new array; .base is
\* the array a view shares its memory with, 0 for an array that owns its data
FancyIndex(h, id, idx) ==
    [heap |-> Append(h, SliceContents(h[id], idx)), id |-> Len(h) + 1, base |-> 0]

\* line 203, overwrite_a=True: scipy may or may not reuse the memory of its
\* argument (clobber), and with it the memory of the array it is a view of
SvdOverwrite(h, a, clobber) ==
    IF ~clobber THEN h
    ELSE [n \in 1..Len(h) |-> IF n = a.id \/ n = a.base THEN Clobbered(h[n]) ELSE h[n]]

\* variant: the comparison of line 204 turned around
RetainedBelow(s2, p, t) ==
    /\ s2[1] # 0
    /\ s2[p] * t[2] * t[2] < t[1] * t[1] * s2[1]

\* line 204: s / s[0] > threshold, position p (0/0 is NaN, and NaN > t is False)
Retained(s2, p, t) ==
    /\ s2[1] # 0
    /\ s2[p] * t[2] * t[2] > t[1] * t[1] * s2[1]

\* line 204: np.where(...)[0], the retained positions in ascending order
WhereRetained(s2, t) ==
    LET keep == {p \in 1..Len(s2) : Retained(s2, p, t)}
    IN  [j \in 1..Cardinality(keep) |->
            CHOOSE p \in keep : Cardinality({q \in keep : q < p}) = j - 1]

\* variant: v is left as the SVD returned it
TruncateKeepsV(f, indices) ==
    [u |-> Take(f.u, indices), s2 |-> Take(f.s2, indices), v |-> f.v, indices |-> indices]

\* lines 205-207: the three factors cut to the retained positions
Truncate(f, indices) ==
    [u |-> Take(f.u, indices), s2 |-> Take(f.s2, indices), v |-> Take(f.v, indices),
     indices |-> indices]

\* line 210: v.dot(psi_y_last.T).dot(u).dot(np.diag(np.reciprocal(s))).
\* Entry (a, c) is num[a][c] / sqrt(rs2[a] * cs2[c]).
MatrixProduct(f, ycols) ==
    [rows |-> Len(f.v),
     cols |-> Len(f.s2),
     num  |-> [a \in 1..Len(f.v) |-> [c \in 1..Len(f.s2) |->
                 SumSeq([j \in 1..Len(ycols) |->
                     f.v[a].num[j] * (IF ycols[j][1] = f.u[c] THEN ycols[j][2] ELSE 0)])]],
     rs2  |-> [a \in 1..Len(f.v) |-> f.v[a].s2],
     cs2  |-> f.s2]

NoMatrix == [rows |-> 0, cols |-> 0, num |-> <<>>, rs2 |-> <<>>, cs2 |-> <<>>]

Failure(error, h) ==
    [err |-> error, matrix |-> NoMatrix, u |-> <<>>, s2 |-> <<>>, v |-> <<>>,
     indices |-> <<>>, heap |-> h]

\* the locals matrix, u, s, v of a driver
Locals(r) == [assigned |-> TRUE, matrix |-> r.matrix, u |-> r.u, s2 |-> r.s2, v |-> r.v]

NoLocals == [assigned |-> FALSE, matrix |-> NoMatrix, u |-> <<>>, s2 |-> <<>>, v |-> <<>>]

\* line 210 on the truncated factors f, the y slice ya and nx selected x columns
Product(h, f, ya, nx) ==
    IF \/ Squeeze(ya.shape) # <<ya.bond, Len(ya.cols)>>
       \/ nx # Len(ya.cols)
       \/ Len(f.u) # Len(f.s2)
    THEN Failure("ValueError", h)                                    \* shapes do not align
    ELSE [err |-> "none", matrix |-> MatrixProduct(f, ya.cols),
          u |-> f.u, s2 |-> f.s2, v |-> f.v, indices |-> f.indices, heap |-> h]

\* lines 204-210 on the SVD full of the x slice
AfterSvd(h, full, ya, nx, t) ==
    IF Len(full.s2) = 0
    THEN Failure("IndexError", h)                                    \* s[0]
    ELSE Product(h, Truncate(full, WhereRetained(full.s2, t)), ya, nx)

\* lines 203-210 on the x slice xs (an array of the heap xs.heap) and the
\* contents ya of the y slice; the slices are freed on return
AfterSlicing(h, xs, ya, t, clobber) ==
    IF Len(Squeeze(xs.heap[xs.id].shape)) # 2
    THEN Failure("ValueError", h)                                    \* svd of a vector
    ELSE AfterSvd(SubSeq(SvdOverwrite(xs.heap, xs, clobber), 1, Len(h)),
                  Svd(xs.heap[xs.id]), ya, Len(xs.heap[xs.id].cols), t)

\* _reduced_matrix(last_core, x_indices, y_indices, threshold) on the heap h.
\* Returns (matrix, u, s, v) or the error raised, with the local indices of
\* line 204 and the heap it leaves.
ReducedMatrix(h, last, x, y, t, clobber) ==
    IF ~IndexInBounds(h[last], x) \/ ~IndexInBounds(h[last], y)
    THEN Failure("IndexError", h)                                    \* lines 199-200
    ELSE AfterSlicing(h, FancyIndex(h, last, x), SliceContents(h[last], y), t, clobber)

----------------------------------------------------------------------------
(* np.linalg.eig and lines 68-71 *)

\* the column holding the nonzero entry of row a, 0 for a zero row
Succ(m, a) ==
    IF \E c \in 1..m.cols : m.num[a][c] # 0
    THEN CHOOSE c \in 1..m.cols : m.num[a][c] # 0
    ELSE 0

RECURSIVE Iter(_, _, _)
Iter(m, a, n) == IF n = 0 \/ a = 0 THEN a ELSE Iter(m, Succ(m, a), n - 1)

\* The matrices whose spectrum the model computes exactly: square, at most one
\* nonzero entry in each row and each column, cycles of length 1 and 2 only, and
\* the product along a 2-cycle a rational square up to sign.
EigRepresentable(m) ==
    /\ m.rows = m.cols
    /\ \A a \in 1..m.rows : Cardinality({c \in 1..m.cols : m.num[a][c] # 0}) <= 1
    /\ \A c \in 1..m.cols : Cardinality({a \in 1..m.rows : m.num[a][c] # 0}) <= 1
    /\ \A a \in 1..m.rows : \A n \in 1..m.rows :
           Iter(m, a, n) = a => (Iter(m, a, 1) = a \/ Iter(m, a, 2) = a)
    /\ \A a \in 1..m.rows :
           LET c == Succ(m, a)
           IN  (c # 0 /\ Succ(m, c) = a) =>
                   /\ IsSquare(Abs(m.num[a][c] * m.num[c][a]))
                   /\ IsSquare(m.rs2[a] * m.cs2[a])
                   /\ c # a => /\ IsSquare(m.rs2[a] * m.cs2[a] * m.rs2[c] * m.cs2[c])
                               /\ IsSquare(ISqrt(m.rs2[a] * m.cs2[a] * m.rs2[c] * m.cs2[c]))

\* The eigenvalues of such a matrix, one per row, as (re + im * i) / den:
\* row a on a 1-cycle has the diagonal entry; rows a < c on a 2-cycle have the
\* two square roots of entry(a, c) * entry(c, a); every other row has 0.
EigValues(m) ==
    [a \in 1..m.rows |->
        LET c == Succ(m, a)
        IN  IF c = a
            THEN [re |-> m.num[a][a], im |-> 0, den |-> ISqrt(m.rs2[a] * m.cs2[a])]
            ELSE IF c # 0 /\ Succ(m, c) = a
            THEN LET p   == m.num[a][c] * m.num[c][a]
                     mag == ISqrt(Abs(p))
                     q   == ISqrt(ISqrt(m.rs2[a] * m.cs2[a] * m.rs2[c] * m.cs2[c]))
                     sgn == IF a < c THEN 1 ELSE -1
                 IN  IF p > 0 THEN [re |-> sgn * mag, im |-> 0, den |-> q]
                              ELSE [re |-> 0, im |-> sgn * mag, den |-> q]
            ELSE [re |-> 0, im |-> 0, den |-> 1]]

\* np.linalg.eig(matrix): LinAlgError unless the matrix is square; the
\* eigenvectors are named by their position, vec[a] belonging to val[a]
Eig(m) ==
    IF m.rows # m.cols
    THEN [err |-> "LinAlgError", val |-> <<>>, vec |-> <<>>]
    ELSE [err |-> "none", val |-> EigValues(m), vec |-> [a \in 1..m.rows |-> a]]

\* |e - 1|^2 * den^2 of an eigenvalue e
Dist2Num(e) == (e.re - e.den) * (e.re - e.den) + e.im * e.im

\* np.abs(e1 - 1) < np.abs(e2 - 1)
Closer(e1, e2) == Dist2Num(e1) * e2.den * e2.den < Dist2Num(e2) * e1.den * e1.den

\* line 69: (np.abs(eigenvalues_reduced - 1)).argsort(), ties in position order
ArgSort(val) ==
    [p \in 1..Len(val) |->
        CHOOSE j \in 1..Len(val) :
            Cardinality({l \in 1..Len(val) :
                \/ Closer(val[l], val[j])
                \/ ~Closer(val[j], val[l]) /\ l < j}) = p - 1]

\* np.real of one eigenvalue: the fraction re / den
Real(e) == [re |-> e.re, den |-> e.den]

\* line 70: np.real(eigenvalues_reduced[idx])
SortedRealValues(val, idx) == [p \in 1..Len(idx) |-> Real(val[idx[p]])]

\* line 71: np.real(eigenvectors_reduced[:, idx]): column p is Re(vec[idx[p]])
SortedRealVectors(vec, idx) == Take(vec, idx)

\* line 75: u.dot(np.diag(np.reciprocal(s))).dot(eigenvectors_reduced)[:, :, None, None],
\* kept as the product's three factors (the eigenvectors are those of matrix)
NewCore(bond, u, s2, matrix, vectors) ==
    [kind |-> "eigencore", shape |-> <<bond, Len(vectors), 1, 1>>, bond |-> bond,
     cols |-> <<u, s2, matrix, vectors>>]

----------------------------------------------------------------------------
(* Inputs *)

\* last cores of psi after ortho_left: bond 3, six snapshots
Core(a, b, c) ==
    CoreArray(3, << <<1, a>>, <<2, a>>, <<2, 2>>, <<1, b>>, <<3, 1>>, <<3, c>> >>)

Cores == {Core(a, b, -1) : a \in {0, 1}, b \in {-2, 2}}

Pair(x, y) == [x |-> x, y |-> y]

\* (x, y) index sets the drivers process to the end on some core
GoodPairs ==
    { Pair(<<1, 2, 5>>, <<3, 4, 6>>), Pair(<<1, 2>>, <<2, 1>>),
      Pair(<<5, 6>>, <<6, 5>>),       Pair(<<3, 4>>, <<4, 3>>) }

\* an index past the last snapshot; a single snapshot (squeezed to a vector);
\* x and y sets of different sizes
BadPairs ==
    { Pair(<<5, 7>>, <<6, 5>>), Pair(<<1>>, <<2>>), Pair(<<1, 2>>, <<3, 4, 6>>) }

\* the pairs that lists are made of
ListPairs ==
    { Pair(<<1, 2, 5>>, <<3, 4, 6>>), Pair(<<1, 2>>, <<2, 1>>), Pair(<<5, 7>>, <<6, 5>>) }

RECURSIVE ListsUpTo(_, _)
ListsUpTo(S, n) ==
    IF n = 0 THEN {<<>>}
    ELSE LET shorter == ListsUpTo(S, n - 1)
         IN  shorter \cup {Append(q, e) : q \in {r \in shorter : Len(r) = n - 1}, e \in S}

Xs(ps) == [j \in 1..Len(ps) |-> ps[j].x]
Ys(ps) == [j \in 1..Len(ps) |-> ps[j].y]

\* the y_indices lists given with the x sets of ps: one y set per x set, or
\* one fewer, or one more
YLists(ps) ==
    {Ys(ps), Append(Ys(ps), <<2, 1>>)}
        \cup (IF ps = <<>> THEN {} ELSE {SubSeq(Ys(ps), 1, Len(ps) - 1)})

\* the (x_indices, y_indices) arguments of a call
BareCalls == {[is_list |-> FALSE, x |-> p.x, y |-> p.y] : p \in GoodPairs \cup BadPairs}

ListCalls ==
    UNION {{[is_list |-> TRUE, x |-> Xs(ps), y |-> ys] : ys \in YLists(ps)} :
              ps \in ListsUpTo(ListPairs, MaxPairs)}

\* every reduced matrix the drivers form on these inputs has a spectrum that
\* EigValues computes exactly
InputsRepresentable ==
    \A core \in Cores : \A p \in GoodPairs \cup BadPairs :
        LET r == ReducedMatrix(<<core>>, 1, p.x, p.y, DefaultThreshold, FALSE)
        IN  r.err = "none" => EigRepresentable(r.matrix)

----------------------------------------------------------------------------
(* The drivers: amuset_hosvd, lines 9-86, and amuset_hocur, lines 89-168 *)

NoCall == [driver |-> "none", is_list |-> FALSE, x |-> <<>>, y |-> <<>>]
NoRet  == [kind |-> "none", error |-> "none", eigenvalues |-> <<>>, eigentensors |-> <<>>]
NoPrev == [driver |-> "none", x |-> <<>>, y |-> <<>>, eigenvalues |-> <<>>, core |-> <<>>]
NoRm   == [phase |-> 0]

\* the last core of TT object id, as a holder of the reference reads it
LastCoreOf(id) == heap[tts[id].last]

\* what the caller of a finished single-pair call holds
Observed ==
    IF pc = "returned" /\ Len(x_indices) = 1
    THEN [driver |-> args.driver, x |-> x_indices[1], y |-> y_indices[1],
          eigenvalues |-> ret.eigenvalues, core |-> LastCoreOf(ret.eigentensors)]
    ELSE prev

\* lines 45-60 (127-142): psi is built and left-orthonormalized, last_core is
\* bound to its last core, the index sets are wrapped into lists
Enter(driver, a) ==
    /\ prev' = Observed
    /\ args' = [driver |-> driver, is_list |-> a.is_list, x |-> a.x, y |-> a.y]
    /\ heap' = <<ortho>>
    /\ tts' = <<[last |-> 1]>>
    /\ psi' = 1
    /\ last_core' = 1
    /\ x_indices' = IF a.is_list THEN a.x ELSE <<a.x>>
    /\ y_indices' = IF a.is_list THEN a.y ELSE <<a.y>>
    /\ i' = 0
    /\ reduced' = NoLocals
    /\ eigenvalues' = <<>>
    /\ eigentensors' = <<>>
    /\ ret' = NoRet
    /\ pc' = "loop"
    /\ UNCHANGED <<ortho, rm>>

\* a call of amuset_hosvd, once the call before it has ended
amuset_hosvd ==
    /\ pc \in {"idle", "returned", "raised"}
    /\ \/ \E a \in BareCalls : Enter("amuset_hosvd", a)
       \/ \E a \in ListCalls : Enter("amuset_hosvd", a)

\* a call of amuset_hocur
amuset_hocur ==
    /\ pc \in {"idle", "returned", "raised"}
    /\ \/ \E a \in BareCalls : Enter("amuset_hocur", a)
       \/ \E a \in ListCalls : Enter("amuset_hocur", a)

\* line 74: eigentensors_tmp = psi binds a second name to the same TT object
EigentensorsTmp(t, p) == [tts |-> t, id |-> p]

\* lines 69-71: the eigenpairs e reordered by idx, real parts taken
Reordered(r, e, idx) ==
    [err |-> "none", heap |-> r.heap, locals |-> Locals(r),
     eigenvalues_reduced  |-> SortedRealValues(e.val, idx),
     eigenvectors_reduced |-> SortedRealVectors(e.vec, idx)]

\* an error ends the iteration; locals are those line 65 assigned before it, if any
Raised(error, h, locals) ==
    [err |-> error, heap |-> h, locals |-> locals,
     eigenvalues_reduced |-> <<>>, eigenvectors_reduced |-> <<>>]

\* lines 68-71 on the eigenpairs e of r.matrix
Sorted(r, e) ==
    IF e.err # "none" THEN Raised(e.err, r.heap, Locals(r))
    ELSE Reordered(r, e, ArgSort(e.val))

\* lines 65-71 on the outcome r of _reduced_matrix
Solve(r) ==
    IF r.err # "none" THEN Raised(r.err, r.heap, reduced) ELSE Sorted(r, Eig(r.matrix))

\* lines 65-71 of one iteration: the reduced matrix and the reordered real
\* eigenpairs, or the error that ends the call
Iteration(clobber) ==
    IF i + 1 > Len(y_indices)
    THEN Raised("IndexError", heap, reduced)                         \* y_indices[i]
    ELSE Solve(ReducedMatrix(heap, last_core, x_indices[i + 1], y_indices[i + 1],
                             DefaultThreshold, clobber))

\* lines 74-79: the new core is written into cores[-1] of the TT object that
\* eigentensors_tmp names, and the results are appended
Store(it, tmp) ==
    /\ it.err = "none"
    /\ reduced' = it.locals
    /\ heap' = Append(it.heap, NewCore(heap[last_core].bond, it.locals.u, it.locals.s2,
                                       it.locals.matrix, it.eigenvectors_reduced))
    /\ tts' = [tmp.tts EXCEPT ![tmp.id].last = Len(it.heap) + 1]
    /\ eigenvalues' = Append(eigenvalues, it.eigenvalues_reduced)
    /\ eigentensors' = Append(eigentensors, tmp.id)

\* lines 63-79 (145-161): one pass of the loop that appends a result
LoopBody ==
    /\ pc = "loop"
    /\ i < Len(x_indices)
    /\ \E clobber \in BOOLEAN : Store(Iteration(clobber), EigentensorsTmp(tts, psi))
    /\ i' = i + 1
    /\ UNCHANGED <<ortho, pc, args, psi, last_core, x_indices, y_indices, ret, prev, rm>>

\* the error it leaves the driver uncaught
Propagate(it) ==
    /\ it.err # "none"
    /\ reduced' = it.locals
    /\ heap' = it.heap
    /\ ret' = [NoRet EXCEPT !.kind = "raise", !.error = it.err]

\* a pass of the loop that raises
LoopRaise ==
    /\ pc = "loop"
    /\ i < Len(x_indices)
    /\ \E clobber \in BOOLEAN : Propagate(Iteration(clobber))
    /\ pc' = "raised"
    /\ UNCHANGED <<ortho, args, tts, psi, last_core, x_indices, y_indices, i,
                   eigenvalues, eigentensors, prev, rm>>

\* variant: the list is unwrapped when the caller passed a bare index array
OnlyOneSetByType == ~args.is_list

\* line 82 (164): len(x_indices) == 1
OnlyOneSet == Len(x_indices) = 1

\* lines 81-86 (163-168): a single result is returned without its list
Return ==
    /\ pc = "loop"
    /\ i = Len(x_indices)
    /\ ret' = IF OnlyOneSet
              THEN [kind |-> "single", error |-> "none",
                    eigenvalues |-> eigenvalues[1], eigentensors |-> eigentensors[1]]
              ELSE [kind |-> "list", error |-> "none",
                    eigenvalues |-> eigenvalues, eigentensors |-> eigentensors]
    /\ pc' = "returned"
    /\ UNCHANGED <<ortho, args, heap, tts, psi, last_core, x_indices, y_indices, i, reduced,
                   eigenvalues, eigentensors, prev, rm>>

Init ==
    /\ ortho \in Cores
    /\ pc = "idle"
    /\ args = NoCall
    /\ heap = <<>>
    /\ tts = <<>>
    /\ psi = 0
    /\ last_core = 0
    /\ x_indices = <<>>
    /\ y_indices = <<>>
    /\ i = 0
    /\ reduced = NoLocals
    /\ eigenvalues = <<>>
    /\ eigentensors = <<>>
    /\ ret = NoRet
    /\ prev = NoPrev
    /\ rm = NoRm

Next == amuset_hosvd \/ amuset_hocur \/ LoopBody \/ LoopRaise \/ Return

Spec == Init /\ [][Next]_vars

----------------------------------------------------------------------------
(* _reduced_matrix called on its own, twice on the same slices with two     *)
(* thresholds                                                               *)

Thresholds == { <<0, 1>>, DefaultThreshold, <<2, 5>>, <<1, 2>>, <<1, 1>> }

\* t1 <= t2 for two thresholds
Leq(t1, t2) == t1[1] * t2[2] <= t2[1] * t1[2]

SlicePairs ==
    GoodPairs \cup BadPairs \cup
        { Pair(<<3, 4, 5>>, <<4, 3, 6>>), Pair(<<1, 3, 5>>, <<2, 4, 6>>),
          Pair(<<3, 5>>, <<4, 6>>) }

\* what a direct caller gets back (and the local indices)
Outcome(r) ==
    [err |-> r.err, matrix |-> r.matrix, u |-> r.u, s2 |-> r.s2, v |-> r.v,
     indices |-> r.indices]

DirectCall(x, y, t, clobber) == Outcome(ReducedMatrix(<<ortho>>, 1, x, y, t, clobber))

InitRM ==
    /\ ortho \in Cores \cup {Core(a, 2, 1) : a \in {0, 1}}
    /\ pc = "idle"
    /\ args = NoCall
    /\ heap = <<>>
    /\ tts = <<>>
    /\ psi = 0
    /\ last_core = 0
    /\ x_indices = <<>>
    /\ y_indices = <<>>
    /\ i = 0
    /\ reduced = NoLocals
    /\ eigenvalues = <<>>
    /\ eigentensors = <<>>
    /\ ret = NoRet
    /\ prev = NoPrev
    /\ \E p \in SlicePairs : \E t1 \in Thresholds : \E t2 \in Thresholds :
           rm = [phase |-> 0, x |-> p.x, y |-> p.y, t1 |-> t1, t2 |-> t2]

\* _reduced_matrix(last_core, x, y, threshold=t1)
FirstCall ==
    /\ rm.phase = 0
    /\ \E clobber \in BOOLEAN :
           rm' = [phase |-> 1, x |-> rm.x, y |-> rm.y, t1 |-> rm.t1, t2 |-> rm.t2,
                  out1 |-> DirectCall(rm.x, rm.y, rm.t1, clobber)]
    /\ UNCHANGED <<ortho, pc, args, heap, tts, psi, last_core, x_indices, y_indices, i,
                   reduced, eigenvalues, eigentensors, ret, prev>>

\* _reduced_matrix(last_core, x, y, threshold=t2)
SecondCall ==
    /\ rm.phase = 1
    /\ \E clobber \in BOOLEAN :
           rm' = [phase |-> 2, x |-> rm.x, y |-> rm.y, t1 |-> rm.t1, t2 |-> rm.t2,
                  out1 |-> rm.out1,
                  out2 |-> DirectCall(rm.x, rm.y, rm.t2, clobber)]
    /\ UNCHANGED <<ortho, pc, args, heap, tts, psi, last_core, x_indices, y_indices, i,
                   reduced, eigenvalues, eigentensors, ret, prev>>

NextRM == FirstCall \/ SecondCall

SpecRM == InitRM /\ [][NextRM]_vars

----------------------------------------------------------------------------
(* Properties *)

\* array ids are given out in order: id 1 is the last core of psi, id j + 1 the
\* array that line 75 builds in pass j
CoreOfIteration(j) == heap[j + 1]

\* the squeezed x slice of a pair, cut from the core ortho_left left
XSlice(x) == SliceContents(ortho, x)

\* number of singular values of the x slice whose ratio to the largest exceeds t
RetainedRank(x, t) ==
    Cardinality({p \in 1..Min(ortho.bond, Len(x)) :
        /\ Svd(XSlice(x)).s2[1] # 0
        /\ Svd(XSlice(x)).s2[p] * t[2] * t[2] > t[1] * t[1] * Svd(XSlice(x)).s2[1]})

\* |e1 - 1| <= |e2 - 1| for two real eigenvalues re / den
NotFarther(e1, e2) == Abs(e1.re - e1.den) * e2.den <= Abs(e2.re - e2.den) * e1.den

\* the eigenvalues a call with the single pair (x, y) computes from the core
\* as ortho_left left it
FreshRun(x, y) == Solve(ReducedMatrix(<<ortho>>, 1, x, y, DefaultThreshold, FALSE))

\* C1: when a call with a list of n >= 2 pairs has returned, the last core of
\* eigentensors[j] is the core built in pass j of the loop, for every j: no
\* returned eigentensor shows the core written for a later pair.
C1_IndependentSnapshots ==
    (pc = "returned" /\ ret.kind = "list" /\ Len(ret.eigentensors) >= 2) =>
        \A j \in 1..Len(ret.eigentensors) :
            LastCoreOf(ret.eigentensors[j]) = CoreOfIteration(j)

\* C2: when a call with a list of two pairs has returned and the same driver
\* was called before with one of the two pairs alone, the list call's
\* eigenvalues and eigentensor (last core) for that pair are those of the
\* single call.
C2_BatchEquivalence ==
    (pc = "returned" /\ ret.kind = "list" /\ Len(x_indices) = 2 /\ Len(y_indices) = 2
        /\ prev.driver = args.driver) =>
        \A j \in 1..2 :
            (prev.x = x_indices[j] /\ prev.y = y_indices[j]) =>
                /\ ret.eigenvalues[j] = prev.eigenvalues
                /\ LastCoreOf(ret.eigentensors[j]) = prev.core

\* the part of C2 about eigenvalues alone
C2_SameEigenvalues ==
    (pc = "returned" /\ ret.kind = "list" /\ Len(x_indices) = 2 /\ Len(y_indices) = 2
        /\ prev.driver = args.driver) =>
        \A j \in 1..2 :
            (prev.x = x_indices[j] /\ prev.y = y_indices[j]) =>
                ret.eigenvalues[j] = prev.eigenvalues

\* C3 as claimed: the shape of the result follows from x_indices being a list
\* or not: a bare index array gives a single result, a list of n >= 1 pairs
\* gives lists of length n (a list of one pair a list of one).
C3_ShapeFollowsType ==
    pc = "returned" =>
        IF ~args.is_list
        THEN ret.kind = "single"
        ELSE Len(args.x) >= 1 =>
                /\ ret.kind = "list"
                /\ Len(ret.eigenvalues) = Len(args.x)
                /\ Len(ret.eigentensors) = Len(args.x)

\* C3 as amended: the shape of the result follows from the number of x index
\* sets: a bare index array and a list of exactly one pair both give a single
\* eigenvalue array and a single eigentensor (the first and only result), and
\* a list of n # 1 x sets gives lists of length n.
C3_ShapeFollowsCount ==
    pc = "returned" =>
        IF ~args.is_list \/ Len(args.x) = 1
        THEN /\ ret.kind = "single"
             /\ ret.eigenvalues = eigenvalues[1]
             /\ ret.eigentensors = eigentensors[1]
        ELSE /\ ret.kind = "list"
             /\ Len(ret.eigenvalues) = Len(args.x)
             /\ Len(ret.eigentensors) = Len(args.x)

\* a call with a list of exactly one pair has returned a single result
C3_Witness ==
    /\ pc = "returned"
    /\ args.is_list
    /\ Len(args.x) = 1
    /\ ret.kind = "single"

\* C4: in every eigenvalue sequence a driver has appended, the distance to 1
\* does not decrease from one position to the next.
C4_OrderedByProximity ==
    \A j \in 1..Len(eigenvalues) :
        \A p \in 1..(Len(eigenvalues[j]) - 1) :
            NotFarther(eigenvalues[j][p], eigenvalues[j][p + 1])

\* C5: _reduced_matrix never returns with no singular value retained: when the
\* largest singular value of the x slice is zero, or the filter keeps nothing,
\* the call ends in an error.
C5_DegenerateFails ==
    (rm.phase >= 1 /\ rm.out1.err = "none") =>
        /\ Len(rm.out1.s2) > 0
        /\ rm.out1.matrix.rows > 0

\* the pair whose reduced matrix the locals matrix, u, s, v hold
PairOfLocals == IF pc = "raised" /\ ret.error = "LinAlgError" THEN i + 1 ELSE i

\* C6: with r the number of singular values the truncation retains for the pair,
\* u has r columns, s r entries, v r rows, the reduced matrix is r x r, and once
\* the pass is finished the pair's eigenvalue sequence has length r and the new
\* last core has shape bond x r x 1 x 1.
C6_ShapeConsistency ==
    reduced.assigned =>
        LET r == RetainedRank(x_indices[PairOfLocals], DefaultThreshold)
        IN  /\ Len(reduced.u) = r
            /\ Len(reduced.s2) = r
            /\ Len(reduced.v) = r
            /\ reduced.matrix.rows = r
            /\ reduced.matrix.cols = r
            /\ PairOfLocals = i =>
                   /\ Len(eigenvalues[i]) = r
                   /\ CoreOfIteration(i).shape = <<ortho.bond, r, 1, 1>>

\* a pass has finished whose truncation dropped some singular values and kept others
C6_Witness ==
    /\ reduced.assigned
    /\ PairOfLocals = i
    /\ Len(reduced.u) > 0
    /\ Len(reduced.u) < Min(ortho.bond, Len(x_indices[i]))
    /\ Len(eigenvalues[i]) = Len(reduced.u)

\* C7: for the same core and index sets and thresholds t1 <= t2, the call with
\* t2 retains no more singular values (columns of u) than the call with t1.
C7_RankMonotone ==
    (rm.phase = 2 /\ Leq(rm.t1, rm.t2) /\ rm.out1.err = "none" /\ rm.out2.err = "none") =>
        Len(rm.out2.u) <= Len(rm.out1.u)

\* two calls with t1 < t2 where the larger threshold retained strictly fewer
C7_Witness ==
    /\ rm.phase = 2
    /\ Leq(rm.t1, rm.t2)
    /\ rm.out1.err = "none" /\ rm.out2.err = "none"
    /\ Len(rm.out2.u) < Len(rm.out1.u)
    /\ Len(rm.out2.u) > 0

\* position k of a squared singular value sequence passes the ratio test
PassesRatio(s2, k, t) == s2[1] # 0 /\ s2[k] * t[2] * t[2] > t[1] * t[1] * s2[1]

\* C8: the retained positions are 1..n for some n: whenever the singular value at
\* position k passes the ratio test, every position before k is retained, and
\* u, s, v are the first n columns, entries and rows of the SVD.
C8_RetainedPrefix ==
    (rm.phase >= 1 /\ rm.out1.err = "none") =>
        LET full == Svd(XSlice(rm.x))
            n    == Len(rm.out1.indices)
        IN  /\ \A k \in 1..Len(full.s2) :
                   PassesRatio(full.s2, k, rm.t1) =>
                       \A j \in 1..k : \E q \in 1..n : rm.out1.indices[q] = j
            /\ rm.out1.indices = [q \in 1..n |-> q]
            /\ rm.out1.u = SubSeq(full.u, 1, n)
            /\ rm.out1.s2 = SubSeq(full.s2, 1, n)
            /\ rm.out1.v = SubSeq(full.v, 1, n)

\* a call that retained some singular values and dropped others
C8_Witness ==
    /\ rm.phase >= 1
    /\ rm.out1.err = "none"
    /\ Len(rm.out1.indices) > 0
    /\ Len(rm.out1.indices) < Len(Svd(XSlice(rm.x)).s2)

\* C9: throughout a call the array named last_core holds the core as
\* ortho_left left it, and the locals and the eigenvalues of every finished
\* pass are those computed from that core for the pair alone.
C9_LastCoreUntouched ==
    pc # "idle" =>
        /\ heap[last_core] = ortho
        /\ \A j \in 1..i :
               eigenvalues[j] = FreshRun(x_indices[j], y_indices[j]).eigenvalues_reduced
        /\ (reduced.assigned /\ i >= 1) =>
               reduced = FreshRun(x_indices[i], y_indices[i]).locals

\* a second pass has finished after the first overwrote psi.cores[-1]
C9_Witness ==
    /\ pc = "loop"
    /\ i >= 2
    /\ tts[psi].last # last_core
    /\ eigenvalues[1] # eigenvalues[2]

\* C10: a call in list mode that returns was given as many y sets as x sets,
\* and returns one entry per x set and per y set.
C10_ListLengthsMustMatch ==
    (pc = "returned" /\ args.is_list) =>
        /\ Len(args.x) = Len(args.y)
        /\ ret.kind = "list" =>
               /\ Len(ret.eigenvalues) = Len(args.y)
               /\ Len(ret.eigentensors) = Len(args.y)

====
